---- MODULE Spec2Model ----
(***************************************************************************)
(* State-machine model of analyzer/utils.py: the lazily built, process-    *)
(* wide frequency table (get_word_rankings) and the analysis pipeline      *)
(* (analyze_text_complexity), stage by stage, with the exceptions each     *)
(* stage can raise.                                                        *)
(*                                                                         *)
(* A text is a sequence of whitespace-separated chunks.  Numbers are       *)
(* scaled integers: round(x, 1) is kept in tenths, round(x, 2) in          *)
(* hundredths, round(x, 3) in thousandths.                                 *)
(*                                                                         *)
(* The NLTK resources that can be missing are the tokenizer (punkt), the   *)
(* POS tagger and the NE chunker; the stopword list, the sentiment lexicon *)
(* and the Brown corpus are taken as installed.  What the libraries        *)
(* compute (Punkt, Treebank, the tagger, the chunker, textstat, VADER) is  *)
(* given by tables over the vocabulary or, for the Flesch score, as input. *)
(***************************************************************************)
EXTENDS Integers, Sequences, FiniteSets, TLC

\* ------------------------------------------------------------------ bounds
\* longest text, in chunks
MaxLen == 3
\* calls to analyze_text_complexity made in one process
MaxCalls == 2

Threads == {1, 2}

\* ------------------------------------------------------------- vocabulary
\* " " is a run of extra whitespace: it yields no token.
Chunks == {"the", "cat", "Cat", "economy.", "b2b.", "?", " "}

Texts == UNION {[1..n -> Chunks] : n \in 0..MaxLen}

\* the texts the racing callers analyse
RaceTexts == {<<>>, <<"cat">>, <<"b2b.", "Cat">>}

\* textstat.flesch_reading_ease(text), rounded to 1 decimal, in tenths.  The
\* formula is unbounded: it is an input of the model.
FleschScores == {-217, 0, 346, 1000, 1212}
RaceScores == {346}

\* ---------------------------------------------------------------- helpers
Min(a, b) == IF a <= b THEN a ELSE b
Max(a, b) == IF a >= b THEN a ELSE b

Range(s) == {s[i] : i \in DOMAIN s}

RECURSIVE Flatten(_)
Flatten(ss) == IF ss = <<>> THEN <<>> ELSE Head(ss) \o Flatten(Tail(ss))

RECURSIVE Count(_, _)
\* number of elements of s that are in the set S
Count(s, S) ==
    IF s = <<>> THEN 0
    ELSE (IF Head(s) \in S THEN 1 ELSE 0) + Count(Tail(s), S)

RECURSIVE Sum(_)
Sum(s) == IF s = <<>> THEN 0 ELSE Head(s) + Sum(Tail(s))

\* Python's round() of the quotient num/den (num >= 0, den > 0) to an integer:
\* to nearest, an exact tie to the even neighbour.  An exact tie of
\* round(p/q, 2) needs 8 | q and of round(x, 3) needs 16 | q, which the
\* bounded texts do not produce; for those the float quotient decides.
PyRound(num, den) ==
    LET f == num \div den
        r == num % den
    IN  IF 2 * r < den THEN f
        ELSE IF 2 * r > den THEN f + 1
        ELSE IF f % 2 = 0 THEN f ELSE f + 1

\* ----------------------------------------------------------- tokenization
\* str.isalpha()
IsAlpha(w) == w \in {"the", "cat", "Cat", "economy"}

\* str.lower()
Lower(w) == IF w = "Cat" THEN "cat" ELSE w

\* the Treebank tokens of one chunk: the sentence-final period is split off
ChunkTokens(c) ==
    CASE c = " " -> <<>>
      [] c = "economy." -> <<"economy", ".">>
      [] c = "b2b." -> <<"b2b", ".">>
      [] OTHER -> <<c>>

\* the chunk ends in a period
EndsWithPeriod(c) == c \in {"economy.", "b2b."}

\* the chunk ends in one of Punkt's sentence-end characters
EndsSentence(c) == EndsWithPeriod(c) \/ c = "?"

\* the chunk without its period
StripPeriod(c) ==
    CASE c = "economy." -> "economy"
      [] c = "b2b." -> "b2b"
      [] OTHER -> c

\* nltk.word_tokenize(s) when the punkt resource is installed
word_tokenize(s) == Flatten([i \in DOMAIN s |-> ChunkTokens(s[i])])

RECURSIVE SplitSentences(_, _)
\* Punkt: a sentence ends after a chunk that ends a sentence; cur is the
\* sentence being collected.  Whitespace between sentences is dropped and a
\* remainder that holds nothing but whitespace is no sentence.
SplitSentences(s, cur) ==
    IF s = <<>> THEN (IF cur = <<>> THEN <<>> ELSE <<cur>>)
    ELSE IF Head(s) = " " THEN SplitSentences(Tail(s), cur)
    ELSE IF EndsSentence(Head(s))
         THEN <<Append(cur, Head(s))>> \o SplitSentences(Tail(s), <<>>)
         ELSE SplitSentences(Tail(s), Append(cur, Head(s)))

\* nltk.sent_tokenize(text) when the punkt resource is installed
sent_tokenize(text) == SplitSentences(text, <<>>)

\* text.split(): the whitespace-separated chunks, punctuation attached
SplitWhitespace(text) == SelectSeq(text, LAMBDA c : c # " ")

RECURSIVE SplitPeriod(_, _)
\* text.split('.'): the pieces between periods; the piece after the last
\* period is kept even when it is empty
SplitPeriod(s, cur) ==
    IF s = <<>> THEN <<cur>>
    ELSE IF EndsWithPeriod(Head(s))
         THEN <<Append(cur, StripPeriod(Head(s)))>> \o SplitPeriod(Tail(s), <<>>)
         ELSE SplitPeriod(Tail(s), Append(cur, Head(s)))

\* [w.lower() for w in words if w.isalpha()]
AlphaWords(words) ==
    LET a == SelectSeq(words, IsAlpha)
    IN  [i \in DOMAIN a |-> Lower(a[i])]

\* set(stopwords.words('english')), the part of it the vocabulary meets
stop_words == {"the"}

\* ---------------------------------------------------------- general stats
\* the characters of a chunk that are alphabetic and not in "aeiouAEIOU"
ChunkConsonants(c) ==
    CASE c \in {"the", "cat", "Cat", "b2b."} -> 2
      [] c \in {"economy.", "economy"} -> 4
      [] OTHER -> 0

\* sum(1 for char in text if char.isalpha() and char not in vowels)
TotalConsonants(text) == Sum([i \in DOMAIN text |-> ChunkConsonants(text[i])])

\* avg_consonants, in hundredths
AvgConsonants(text, alpha_words) ==
    IF alpha_words # <<>>
    THEN PyRound(100 * TotalConsonants(text), Len(alpha_words))
    ELSE 0

\* SentimentIntensityAnalyzer().polarity_scores(text): an opaque payload
PolarityScores(text) == "polarity_scores"

\* ------------------------------------------------------------ readability
FleschProgressUnclampedBelow(flesch_score) == Min(1000, flesch_score)

\* max(0, min(100, flesch_score)), in tenths
FleschProgress(flesch_score) == Max(0, Min(1000, flesch_score))

LowerSentence(sent) == [i \in DOMAIN sent |-> Lower(sent[i])]

JaccardOverFirst(sent1, sent2) ==
    LET words1 == Range(word_tokenize(LowerSentence(sent1)))
        words2 == Range(word_tokenize(LowerSentence(sent2)))
    IN  IF words1 = {} \/ words2 = {} THEN <<0, 1>>
        ELSE <<Cardinality(words1 \cap words2), Cardinality(words1)>>

\* calculate_jaccard(sent1, sent2) as the fraction <<numerator, denominator>>
calculate_jaccard(sent1, sent2) ==
    LET words1 == Range(word_tokenize(LowerSentence(sent1)))
        words2 == Range(word_tokenize(LowerSentence(sent2)))
    IN  IF words1 = {} \/ words2 = {} THEN <<0, 1>>
        ELSE <<Cardinality(words1 \cap words2), Cardinality(words1 \cup words2)>>

RECURSIVE TotalJaccard(_, _)
\* total_jaccard after the pairs i, i+1, ... as a fraction
TotalJaccard(sentences, i) ==
    IF i >= Len(sentences) THEN <<0, 1>>
    ELSE LET j == calculate_jaccard(sentences[i], sentences[i + 1])
             rest == TotalJaccard(sentences, i + 1)
         IN  <<j[1] * rest[2] + rest[1] * j[2], j[2] * rest[2]>>

\* avg_jaccard, in thousandths
AvgJaccard(sentences) ==
    IF Len(sentences) > 1
    THEN LET total == TotalJaccard(sentences, 1)
         IN  PyRound(1000 * total[1], total[2] * (Len(sentences) - 1))
    ELSE 1000

\* ----------------------------------------------------------- most_common
RECURSIVE Distinct(_)
\* the distinct elements of s, in order of first occurrence
Distinct(s) ==
    IF s = <<>> THEN <<>>
    ELSE <<Head(s)>> \o Distinct(SelectSeq(Tail(s), LAMBDA x : x # Head(s)))

RECURSIVE ByCount(_, _)
\* keys ordered by descending count in s, equal counts in the order given
ByCount(keys, s) ==
    IF keys = <<>> THEN <<>>
    ELSE LET best == CHOOSE i \in DOMAIN keys :
                        /\ \A j \in DOMAIN keys :
                              Count(s, {keys[j]}) <= Count(s, {keys[i]})
                        /\ \A j \in 1..(i - 1) :
                              Count(s, {keys[j]}) < Count(s, {keys[i]})
             others == [k \in 1..(Len(keys) - 1) |->
                          IF k < best THEN keys[k] ELSE keys[k + 1]]
         IN  <<keys[best]>> \o ByCount(others, s)

\* Counter(s).most_common(n): <<element, count>> pairs
MostCommon(s, n) ==
    LET keys == ByCount(Distinct(s), s)
    IN  [i \in 1..Min(n, Len(keys)) |-> <<keys[i], Count(s, {keys[i]})>>]

RepeatingUnfiltered(s, n) == MostCommon(s, n)

\* [x for x, count in Counter(s).most_common(n) if count > 1]
Repeating(s, n) == SelectSeq(MostCommon(s, n), LAMBDA e : e[2] > 1)

\* ----------------------------------------------------------- highlighting
\* len(w), for the tokens of the vocabulary
WordLength(w) ==
    CASE w = "economy" -> 7
      [] w \in {"the", "cat", "Cat", "b2b"} -> 3
      [] OTHER -> 1

\* {word for word, count in word_counts.most_common(5) if count > 1}
TopWordsSet(alpha_words) ==
    IF alpha_words # <<>>
    THEN {e[1] : e \in Range(Repeating(
              SelectSeq(alpha_words, LAMBDA w : w \notin stop_words), 5))}
    ELSE {}

TotalScoreUncappedLength(sent_len, complex_count) ==
    4 * sent_len + Min(15 * complex_count, 48)

\* total_score of a sentence, in 120ths:
\* min(sent_len / 30, 0.6) + min(complex_count / 8, 0.4)
TotalScore(sent_len, complex_count) ==
    Min(4 * sent_len, 72) + Min(15 * complex_count, 48)

OpacityNeverZeroed(sent_len, complex_count) ==
    PyRound(100 * Min(TotalScore(sent_len, complex_count), 72), 120)

\* round(opacity, 2) in hundredths.  total_score is a float sum: where the
\* exact value is a tie in the third decimal, the float lies below it for
\* (3, 3) and (6, 3) and above it for (12, 1)
Opacity(sent_len, complex_count) ==
    IF sent_len < 8 /\ complex_count < 2 THEN 0
    ELSE IF <<sent_len, complex_count>> \in {<<3, 3>>, <<6, 3>>}
         THEN PyRound(100 * Min(TotalScore(sent_len, complex_count), 72), 120) - 1
    ELSE IF <<sent_len, complex_count>> = <<12, 1>>
         THEN PyRound(100 * Min(TotalScore(sent_len, complex_count), 72), 120) + 1
    ELSE PyRound(100 * Min(TotalScore(sent_len, complex_count), 72), 120)

\* one entry of highlighted_sentences
HighlightSentence(sent, top_words_set) ==
    LET sent_tokens == word_tokenize(sent)
        sent_words_alpha == AlphaWords(sent_tokens)
        sent_len == Len(sent_words_alpha)
        complex_count ==
            Len(SelectSeq(sent_words_alpha, LAMBDA w : WordLength(w) > 6))
    IN  [text |-> [i \in DOMAIN sent_tokens |->
                     [token |-> sent_tokens[i],
                      strong |-> Lower(sent_tokens[i]) \in top_words_set]],
         \* round(total_score * 10, 1), in tenths
         complexity_score |-> PyRound(100 * TotalScore(sent_len, complex_count), 120),
         opacity |-> Opacity(sent_len, complex_count)]

Highlighted(sentences, alpha_words) ==
    [i \in DOMAIN sentences |->
        HighlightSentence(sentences[i], TopWordsSet(alpha_words))]

\* ------------------------------------------------------ lexical structure
LexicalDiversityInverted(alpha_words) ==
    IF alpha_words # <<>>
    THEN PyRound(100 * Len(alpha_words), Cardinality(Range(alpha_words)))
    ELSE 0

\* lexical_diversity, in hundredths
LexicalDiversity(alpha_words) ==
    IF alpha_words # <<>>
    THEN PyRound(100 * Cardinality(Range(alpha_words)), Len(alpha_words))
    ELSE 0

\* rare_word_ratio, in hundredths
RareWordRatio(alpha_words) ==
    IF alpha_words # <<>>
    THEN PyRound(100 * Len(SelectSeq(alpha_words, LAMBDA w : w \notin stop_words)),
                 Len(alpha_words))
    ELSE 0

\* nltk.pos_tag(alpha_words, tagset='universal'), word by word
UniversalTag(w) == IF w = "the" THEN "DET" ELSE "NOUN"

content_tags == {"NOUN", "VERB", "ADJ", "ADV"}

\* content_ratio, in hundredths, of a text that has alphabetic words
ContentRatio(alpha_words) ==
    PyRound(100 * Len(SelectSeq(alpha_words,
                                LAMBDA w : UniversalTag(w) \in content_tags)),
            Len(alpha_words))

\* a rendered chart, base64 encoded, and the chart that was not rendered
Png == "png"
None == "None"

LenGraphAlways(alpha_words) == Png

\* len_graph of a call whose histogram is rendered without an exception
LenGraph(alpha_words) == IF alpha_words # <<>> THEN Png ELSE None

\* ---------------------------------------------------------------- n-grams
\* list(nltk.util.ngrams(s, n))
ngrams(s, n) ==
    IF Len(s) < n THEN <<>>
    ELSE [i \in 1..(Len(s) - n + 1) |-> SubSeq(s, i, i + n - 1)]

\* repeating_bigrams (n = 2) and repeating_trigrams (n = 3): <<n-gram, count>>
RepeatingNgrams(alpha_words, n) ==
    IF Len(alpha_words) > 2 THEN Repeating(ngrams(alpha_words, n), 5) ELSE <<>>

\* --------------------------------------------------------- named entities
\* the labelled chunks nltk.ne_chunk finds in the tagged original-case words
NamedEntities(orig_words) ==
    IF "Cat" \in Range(orig_words) THEN <<"Cat (PERSON)">> ELSE <<>>

\* ----------------------------------------------------------------- rarity
\* the rank map built from the Brown corpus: the part the vocabulary meets
BrownRankings == [w \in {"the", "economy"} |-> IF w = "the" THEN 1 ELSE 1001]

\* rankings.get(word, 999999)
RankOf(word) == IF word \in DOMAIN BrownRankings THEN BrownRankings[word] ELSE 999999

RarityLabelBelowBounds(rank) ==
    IF rank < 1000 THEN "Common"
    ELSE IF rank < 5000 THEN "Intermediate"
    ELSE "Advanced/Rare"

get_word_rarity_label(rank) ==
    IF rank <= 1000 THEN "Common"
    ELSE IF rank <= 5000 THEN "Intermediate"
    ELSE "Advanced/Rare"

Labels == {"Common", "Intermediate", "Advanced/Rare"}

WordRarityDistKnownOnly(alpha_words) ==
    [k \in Labels |->
        Len(SelectSeq(alpha_words,
                      LAMBDA w : /\ w \in DOMAIN BrownRankings
                                 /\ get_word_rarity_label(RankOf(w)) = k))]

\* word_rarity_dist after the loop over alpha_words
WordRarityDist(alpha_words) ==
    [k \in Labels |->
        Len(SelectSeq(alpha_words, LAMBDA w : get_word_rarity_label(RankOf(w)) = k))]

\* rarity_stats: round((v / total_alpha) * 100, 1), in tenths of a percent
RarityStats(alpha_words) ==
    LET total_alpha == IF alpha_words # <<>> THEN Len(alpha_words) ELSE 1
        dist == WordRarityDist(alpha_words)
    IN  [k \in Labels |-> PyRound(1000 * dist[k], total_alpha)]

\* ------------------------------------------------------------------ state
VARIABLES
    WORD_RANKINGS,  \* the global _WORD_RANKINGS: 0 is None, n the table of build n
    builds,         \* how many times the Brown-corpus table was built
    figures,        \* pyplot figures that are open
    calls,          \* calls made so far
    punkt,          \* the tokenizer resource is installed
    tagger,         \* the POS tagger resource is installed
    chunker,        \* the named-entity chunker resource is installed
    pc,             \* per thread: where its call stands
    arg,            \* per thread: the text of its latest call
    loc,            \* per thread: the locals of its running call
    result          \* per thread: how its latest call ended

vars == <<WORD_RANKINGS, builds, figures, calls, punkt, tagger, chunker,
          pc, arg, loc, result>>

globals == <<WORD_RANKINGS, builds, figures>>
resources == <<punkt, tagger, chunker>>

\* the locals of analyze_text_complexity before any is assigned
NoLocals ==
    [words |-> <<>>, sentences |-> <<>>, alpha_words |-> <<>>,
     word_count |-> 0, sentence_count |-> 0, sentiment |-> "",
     avg_consonants |-> 0, flesch_score |-> 0, flesch_progress |-> 0,
     avg_jaccard |-> 0, highlighted_sentences |-> <<>>,
     lexical_diversity |-> 0, rare_word_ratio |-> 0, content_ratio |-> 0,
     pos_graph |-> None, len_graph |-> None,
     repeating_bigrams |-> <<>>, repeating_trigrams |-> <<>>,
     entities |-> <<>>, rankings |-> 0]

\* no call yet, or a call that is running
NoResult == [kind |-> "none", exc |-> "", at |-> "", value |-> <<>>]
\* return {}
EmptyResult == [kind |-> "empty", exc |-> "", at |-> "", value |-> <<>>]
Returned(report) == [kind |-> "report", exc |-> "", at |-> "", value |-> report]
\* get_word_rankings() called directly returns the table
ReturnedTable(table) == [kind |-> "rankings", exc |-> "", at |-> "", value |-> table]
\* the call ended with an exception raised by the named call
Raised(exc, at) == [kind |-> "raised", exc |-> exc, at |-> at, value |-> <<>>]

EmptyTextNeverDetected(text) == FALSE

\* `not text`
IsEmptyText(text) == text = <<>>

Init ==
    /\ WORD_RANKINGS = 0
    /\ builds = 0
    /\ figures = 0
    /\ calls = 0
    /\ punkt \in BOOLEAN
    /\ tagger \in BOOLEAN
    /\ chunker \in BOOLEAN
    /\ pc = [t \in Threads |-> "idle"]
    /\ arg = [t \in Threads |-> <<>>]
    /\ loc = [t \in Threads |-> NoLocals]
    /\ result = [t \in Threads |-> NoResult]

\* the call of thread t ends: its locals are gone
Finish(t, res) ==
    /\ pc' = [pc EXCEPT ![t] = "done"]
    /\ loc' = [loc EXCEPT ![t] = NoLocals]
    /\ result' = [result EXCEPT ![t] = res]

\* the call of thread t goes on at the next stage with locals l
Goto(t, stage, l) ==
    /\ pc' = [pc EXCEPT ![t] = stage]
    /\ loc' = [loc EXCEPT ![t] = l]
    /\ UNCHANGED result

\* analyze_text_complexity(text), lines 101-136: the empty-text return, the
\* tokenization with its fallback, the general stats and the Flesch score
Call(t, text, score) ==
    /\ pc[t] = "idle"
    /\ calls < MaxCalls
    /\ calls' = calls + 1
    /\ arg' = [arg EXCEPT ![t] = text]
    /\ UNCHANGED <<globals, resources>>
    /\ IF IsEmptyText(text)
       THEN Finish(t, EmptyResult)
       ELSE LET words == IF punkt THEN word_tokenize(text)
                         ELSE SplitWhitespace(text)
                sentences == IF punkt THEN sent_tokenize(text)
                             ELSE SplitPeriod(text, <<>>)
                alpha_words == AlphaWords(words)
            IN  /\ pc' = [pc EXCEPT ![t] = "cohesion"]
                /\ UNCHANGED result
                /\ loc' = [loc EXCEPT ![t] =
                      [NoLocals EXCEPT
                         !.words = words,
                         !.sentences = sentences,
                         !.alpha_words = alpha_words,
                         !.word_count = Len(words),
                         !.sentence_count = Len(sentences),
                         !.sentiment = PolarityScores(text),
                         !.avg_consonants = AvgConsonants(text, alpha_words),
                         !.flesch_score = score,
                         !.flesch_progress = FleschProgress(score)]]

\* lines 138-145: calculate_jaccard tokenizes each sentence again, outside
\* any try
Cohesion(t) ==
    /\ pc[t] = "cohesion"
    /\ UNCHANGED <<globals, resources, calls, arg>>
    /\ IF Len(loc[t].sentences) > 1 /\ ~punkt
       THEN Finish(t, Raised("LookupError", "word_tokenize"))
       ELSE Goto(t, "highlight",
                 [loc[t] EXCEPT !.avg_jaccard = AvgJaccard(loc[t].sentences)])

\* lines 147-213: max_sent_len and the loop tokenize each sentence, outside
\* any try
Highlight(t) ==
    /\ pc[t] = "highlight"
    /\ UNCHANGED <<globals, resources, calls, arg>>
    /\ IF loc[t].sentences # <<>> /\ ~punkt
       THEN Finish(t, Raised("LookupError", "word_tokenize"))
       ELSE Goto(t, "lexical",
                 [loc[t] EXCEPT !.highlighted_sentences =
                     Highlighted(loc[t].sentences, loc[t].alpha_words)])

\* lines 215-245 when the pie chart, if any, is rendered and closed
Lexical(t) ==
    /\ pc[t] = "lexical"
    /\ UNCHANGED <<globals, resources, calls, arg>>
    /\ LET alpha_words == loc[t].alpha_words
           l == [loc[t] EXCEPT
                   !.lexical_diversity = LexicalDiversity(alpha_words),
                   !.rare_word_ratio = RareWordRatio(alpha_words)]
       IN  IF alpha_words = <<>> THEN Goto(t, "len_graph", l)
           ELSE IF ~tagger THEN Finish(t, Raised("LookupError", "pos_tag"))
           ELSE Goto(t, "len_graph",
                     [l EXCEPT !.content_ratio = ContentRatio(alpha_words),
                               !.pos_graph = Png])

\* lines 237-245 when plotting or savefig raises: plt.close() is not reached
PosGraphRaises(t) ==
    /\ pc[t] = "lexical"
    /\ loc[t].alpha_words # <<>>
    /\ tagger
    /\ figures' = figures + 1
    /\ UNCHANGED <<WORD_RANKINGS, builds, resources, calls, arg>>
    /\ Finish(t, Raised("Exception", "pos_graph"))

\* lines 247-262 when the histogram, if any, is rendered and closed
LenGraphStage(t) ==
    /\ pc[t] = "len_graph"
    /\ UNCHANGED <<globals, resources, calls, arg>>
    /\ Goto(t, "advanced",
            [loc[t] EXCEPT !.len_graph = LenGraph(loc[t].alpha_words)])

\* lines 252-262 when plotting or savefig raises
LenGraphRaises(t) ==
    /\ pc[t] = "len_graph"
    /\ loc[t].alpha_words # <<>>
    /\ figures' = figures + 1
    /\ UNCHANGED <<WORD_RANKINGS, builds, resources, calls, arg>>
    /\ Finish(t, Raised("Exception", "len_graph"))

\* lines 264-293: the n-grams, and the entities inside try/except Exception
Advanced(t) ==
    /\ pc[t] = "advanced"
    /\ UNCHANGED <<globals, resources, calls, arg>>
    /\ LET alpha_words == loc[t].alpha_words
           orig_words == SelectSeq(loc[t].words, IsAlpha)
       IN  Goto(t, "rankings",
                [loc[t] EXCEPT
                   !.repeating_bigrams = RepeatingNgrams(alpha_words, 2),
                   !.repeating_trigrams = RepeatingNgrams(alpha_words, 3),
                   \* pos_tag or ne_chunk raising leaves the list empty
                   !.entities = IF alpha_words # <<>> /\ tagger /\ chunker
                                THEN NamedEntities(orig_words) ELSE <<>>])

\* get_word_rankings() called on its own
CallRankings(t) ==
    /\ pc[t] = "idle"
    /\ calls < MaxCalls
    /\ calls' = calls + 1
    /\ pc' = [pc EXCEPT ![t] = "direct"]
    /\ UNCHANGED <<globals, resources, arg, loc, result>>

\* the table was built and the direct caller is about to get it
ReturnRankings(t, table) ==
    IF pc[t] = "direct" \/ pc[t] = "direct_build"
    THEN Finish(t, ReturnedTable(table))
    ELSE Goto(t, "rarity", [loc[t] EXCEPT !.rankings = table])

\* lines 61-62 and 71: the test of the global, and the return of a table
\* that is there
GetRankings(t) ==
    /\ pc[t] \in {"rankings", "direct"}
    /\ UNCHANGED <<globals, resources, calls, arg>>
    /\ IF WORD_RANKINGS = 0
       THEN /\ pc' = [pc EXCEPT ![t] =
                        IF pc[t] = "direct" THEN "direct_build" ELSE "build"]
            /\ UNCHANGED <<loc, result>>
       ELSE ReturnRankings(t, WORD_RANKINGS)

\* lines 63-71: the build from the corpus, the assignment and the return
BuildRankings(t) ==
    /\ pc[t] \in {"build", "direct_build"}
    /\ builds' = builds + 1
    /\ WORD_RANKINGS' = builds + 1
    /\ UNCHANGED <<figures, resources, calls, arg>>
    /\ ReturnRankings(t, builds + 1)

\* the report of lines 327-354
Report(l, rarity_stats, freq_graph) ==
    [general |-> [word_count |-> l.word_count,
                  sentence_count |-> l.sentence_count,
                  avg_consonants |-> l.avg_consonants,
                  sentiment |-> l.sentiment],
     reading |-> [flesch_score |-> l.flesch_score,
                  flesch_progress |-> l.flesch_progress,
                  avg_jaccard |-> l.avg_jaccard,
                  highlighted_sentences |-> l.highlighted_sentences],
     lexical |-> [diversity |-> l.lexical_diversity,
                  rare_ratio |-> l.rare_word_ratio,
                  content_ratio |-> l.content_ratio,
                  pos_graph |-> l.pos_graph,
                  len_graph |-> l.len_graph],
     advanced |-> [bigrams |-> l.repeating_bigrams,
                   trigrams |-> l.repeating_trigrams,
                   \* sorted(list(set(entities)))
                   entities |-> l.entities,
                   rarity_stats |-> rarity_stats,
                   freq_graph |-> freq_graph]]

\* lines 301-354 when the bar chart, if any, is rendered and closed
Rarity(t) ==
    /\ pc[t] = "rarity"
    /\ UNCHANGED <<globals, resources, calls, arg>>
    /\ LET alpha_words == loc[t].alpha_words
       IN  Finish(t, Returned(Report(loc[t], RarityStats(alpha_words),
                                     IF alpha_words # <<>> THEN Png ELSE None)))

\* lines 316-325 when plotting or savefig raises
FreqGraphRaises(t) ==
    /\ pc[t] = "rarity"
    /\ loc[t].alpha_words # <<>>
    /\ figures' = figures + 1
    /\ UNCHANGED <<WORD_RANKINGS, builds, resources, calls, arg>>
    /\ Finish(t, Raised("Exception", "freq_graph"))

\* the caller has used what the call gave it (views.document_detail renders
\* the metrics and returns) and is free to call again
Release(t) ==
    /\ pc[t] = "done"
    /\ pc' = [pc EXCEPT ![t] = "idle"]
    /\ arg' = [arg EXCEPT ![t] = <<>>]
    /\ result' = [result EXCEPT ![t] = NoResult]
    /\ UNCHANGED <<globals, resources, calls, loc>>

\* one step of thread t once its call is under way
Step(t) ==
    \/ Release(t)
    \/ Cohesion(t)
    \/ Highlight(t)
    \/ Lexical(t)
    \/ PosGraphRaises(t)
    \/ LenGraphStage(t)
    \/ LenGraphRaises(t)
    \/ Advanced(t)
    \/ GetRankings(t)
    \/ BuildRankings(t)
    \/ Rarity(t)
    \/ FreqGraphRaises(t)

\* one call, on any text of the bounded vocabulary
Next ==
    \/ /\ calls = 0
       /\ \E text \in Texts, score \in FleschScores : Call(1, text, score)
    \/ Step(1)

Spec == Init /\ [][Next]_vars

\* callers on several threads, each calling again and again: their steps
\* interleave
RaceNext ==
    \E t \in Threads :
        \/ \E text \in RaceTexts, score \in RaceScores : Call(t, text, score)
        \/ CallRankings(t)
        \/ Step(t)

RaceSpec == Init /\ [][RaceNext]_vars

\* ------------------------------------------------------------ longer texts
\* the most words of one sentence, and the most of them longer than 6
\* characters
MaxWords == 25
MaxLong == 5

\* n copies of the chunk c
Repeat(c, n) == [i \in 1..n |-> c]

\* one unterminated sentence: short words, then words longer than 6 characters
SentenceTexts ==
    UNION {{Repeat("cat", n - k) \o Repeat("economy", k) : k \in 0..Min(n, MaxLong)} :
              n \in 0..MaxWords}

\* a cycle of words in which every pair of the three words is adjacent once
NgramCycle ==
    <<"the", "the", "cat", "cat", "economy", "economy", "the", "economy", "cat">>

\* the most words of a text that runs round the cycle
MaxCycle == 19

\* the texts that run round the cycle: past one round every further word
\* repeats a bigram, and one word later a trigram
CycleTexts ==
    {[i \in 1..n |-> NgramCycle[((i - 1) % Len(NgramCycle)) + 1]] : n \in 0..MaxCycle}

LongTexts == SentenceTexts \cup CycleTexts

\* one call, on a long sentence or a text of many repeated n-grams
LongNext ==
    \/ /\ calls = 0
       /\ \E text \in LongTexts, score \in RaceScores : Call(1, text, score)
    \/ Step(1)

LongSpec == Init /\ [][LongNext]_vars

\* ------------------------------------------------------------ rarity label
\* the largest rank of a word that is in the table
MaxRank == 5001

\* the ranks a lookup can give: a place in the table (places are counted
\* from 1) or the rank of a word that is not in it
Ranks == 1..MaxRank \cup {999999}

ReturnedLabel(label) == [kind |-> "label", exc |-> "", at |-> "", value |-> label]

\* get_word_rarity_label(rank), called on its own
CallRarityLabel(t, rank) ==
    /\ pc[t] = "idle"
    /\ calls < MaxCalls
    /\ calls' = calls + 1
    /\ arg' = [arg EXCEPT ![t] = <<rank>>]
    /\ UNCHANGED <<globals, resources>>
    /\ Finish(t, ReturnedLabel(get_word_rarity_label(rank)))

\* one call, of the label function on a rank or of the analysis on a text
RankNext ==
    \/ /\ calls = 0
       /\ \E rank \in Ranks : CallRarityLabel(1, rank)
    \/ Next

RankSpec == Init /\ [][RankNext]_vars

\* ----------------------------------------------------------------- claims
\* thread t's latest call returned the report result[t].value
HasReport(t) == pc[t] = "done" /\ result[t].kind = "report"

\* the text has no alphabetic token
ZeroAlpha(text) == \A i \in DOMAIN text : text[i] \in {"b2b.", "?", " "}

\* the lowercase alphabetic tokens of a text, chunk by chunk
AlphaTokenOf(c) ==
    CASE c = "economy." -> "economy"
      [] c = "Cat" -> "cat"
      [] OTHER -> c

AlphaChunks(text) ==
    SelectSeq(text, LAMBDA c : c \in {"the", "cat", "Cat", "economy.", "economy"})

\* C1: however the calls of analyze_text_complexity and get_word_rankings
\* interleave, the Brown-corpus table is built at most once.
C1_BuiltAtMostOnce == builds <= 1

\* C2: whenever no call is running, whether the calls returned or raised,
\* no pyplot figure is open.
C2_FiguresReleased ==
    (\A t \in Threads : pc[t] \in {"idle", "done"}) => figures = 0

\* C3: a call on a non-empty text with the POS tagger or the NE chunker
\* missing (and nothing else failing) returns a report, with content_ratio 0.0
\* and no pos_graph when the tagger is missing and no entities when the
\* chunker is missing.
C3_MissingResourceSkipsStage ==
    \A t \in Threads :
        (/\ pc[t] = "done"
         /\ arg[t] # <<>>
         /\ punkt
         /\ ~tagger \/ ~chunker
         /\ result[t].exc # "Exception")
        => /\ result[t].kind = "report"
           /\ ~tagger => /\ result[t].value.lexical.content_ratio = 0
                         /\ result[t].value.lexical.pos_graph = None
           /\ ~chunker => result[t].value.advanced.entities = <<>>

\* C4: with the tokenizer resource missing, a call on a non-empty text never
\* ends with the LookupError of word_tokenize.
C4_FallbackCompletes ==
    \A t \in Threads :
        (pc[t] = "done" /\ arg[t] # <<>> /\ ~punkt)
        => ~(result[t].kind = "raised" /\ result[t].at = "word_tokenize")

\* C5: a call on the empty text ends in that very step with the empty result:
\* no local is computed (no tokenization), no figure is opened and the
\* frequency table is neither tested nor built.
C5_EmptyTextShortCircuits ==
    [][\A t \in Threads :
          (pc[t] = "idle" /\ pc'[t] \notin {"idle", "direct"} /\ arg'[t] = <<>>)
          => /\ pc'[t] = "done"
             /\ result'[t] = EmptyResult
             /\ loc'[t] = NoLocals
             /\ UNCHANGED <<WORD_RANKINGS, builds, figures>>]_vars

C5_Witness ==
    \E t \in Threads : pc[t] = "done" /\ result[t] = EmptyResult /\ calls = 1

C7_WordCountIsTokenCount ==
    \A t \in Threads :
        (/\ pc[t] = "done"
         /\ arg[t] # <<>>
         /\ result[t].exc # "Exception"
         /\ result[t].at # "pos_tag")
        => /\ result[t].kind = "report"
           /\ result[t].value.general.word_count >= 0
           /\ result[t].value.general.word_count =
                 Len(IF punkt THEN word_tokenize(arg[t]) ELSE SplitWhitespace(arg[t]))

\* C8: in every report diversity and rare_ratio lie in [0.0, 1.0], each
\* within half a hundredth of its quotient (unique lowercase alphabetic tokens,
\* respectively alphabetic tokens that are no stopword, over alphabetic
\* tokens), and both are 0.0 when the text has no alphabetic token.
C8_RatiosInUnitInterval ==
    \A t \in Threads :
        HasReport(t)
        => LET r == result[t].value.lexical
               alpha == AlphaChunks(arg[t])
               n == Len(alpha)
               unique == Cardinality({AlphaTokenOf(alpha[i]) : i \in DOMAIN alpha})
               nonstop == Cardinality({i \in DOMAIN alpha : alpha[i] # "the"})
               Near(x, q) == 2 * (IF 100 * q >= x * n THEN 100 * q - x * n
                                  ELSE x * n - 100 * q) <= n
           IN  /\ r.diversity \in 0..100
               /\ r.rare_ratio \in 0..100
               /\ n = 0 => r.diversity = 0 /\ r.rare_ratio = 0
               /\ n > 0 => Near(r.diversity, unique) /\ Near(r.rare_ratio, nonstop)

C8_Witness ==
    \E t \in Threads :
        /\ HasReport(t)
        /\ result[t].value.lexical.diversity \in 1..99
        /\ result[t].value.lexical.rare_ratio \in 1..99

\* the set of lowercase tokens of a sentence
C9_TokenSet(sent) == {Lower(w) : w \in Range(word_tokenize(sent))}

RECURSIVE C9_PairSum(_, _)
\* the sum over the adjacent pairs i, i+1, ... of |intersection| / |union|
\* (0 for a pair with an empty side), as the fraction <<numerator, denominator>>
C9_PairSum(sentences, i) ==
    IF i >= Len(sentences) THEN <<0, 1>>
    ELSE LET a == C9_TokenSet(sentences[i])
             b == C9_TokenSet(sentences[i + 1])
             num == IF a = {} \/ b = {} THEN 0 ELSE Cardinality(a \cap b)
             den == IF a = {} \/ b = {} THEN 1 ELSE Cardinality(a \cup b)
             rest == C9_PairSum(sentences, i + 1)
         IN  <<num * rest[2] + rest[1] * den, den * rest[2]>>

\* C9 as stated: avg_jaccard is 1.0 below 2 sentences; otherwise it is the
\* mean of the adjacent pairs' Jaccard similarities and lies in [0.0, 1.0].
C9_CohesionIsMean ==
    \A t \in Threads :
        HasReport(t)
        => LET avg == result[t].value.reading.avg_jaccard
               sentences == sent_tokenize(arg[t])
               n == Len(sentences)
               sum == C9_PairSum(sentences, 1)
           IN  /\ n < 2 => avg = 1000
               /\ n >= 2 => /\ avg * sum[2] * (n - 1) = 1000 * sum[1]
                            /\ avg \in 0..1000

\* C9 amended: avg_jaccard is 1.0 below 2 sentences; otherwise it is the mean
\* of the adjacent pairs' Jaccard similarities rounded to 3 decimals (within
\* 0.0005 of the mean) and lies in [0.0, 1.0].
C9_CohesionIsRoundedMean ==
    \A t \in Threads :
        HasReport(t)
        => LET avg == result[t].value.reading.avg_jaccard
               sentences == sent_tokenize(arg[t])
               n == Len(sentences)
               sum == C9_PairSum(sentences, 1)
               d == sum[2] * (n - 1)
               diff == avg * d - 1000 * sum[1]
           IN  /\ n < 2 => avg = 1000
               /\ n >= 2 => /\ 2 * (IF diff >= 0 THEN diff ELSE -diff) <= d
                            /\ avg \in 0..1000

C9_Witness ==
    \E t \in Threads :
        /\ HasReport(t)
        /\ result[t].value.general.sentence_count >= 2
        /\ result[t].value.reading.avg_jaccard = 333

\* C10: in every report flesch_progress lies in [0, 100]: it is flesch_score
\* when that lies in [0, 100], 0 when it is negative, 100 when it is above.
C10_FleschProgressClamped ==
    \A t \in Threads :
        HasReport(t)
        => LET score == result[t].value.reading.flesch_score
               progress == result[t].value.reading.flesch_progress
           IN  /\ progress \in 0..1000
               /\ score \in 0..1000 => progress = score
               /\ score < 0 => progress = 0
               /\ score > 1000 => progress = 1000

C10_Witness ==
    \E t \in Threads :
        /\ HasReport(t)
        /\ result[t].value.reading.flesch_score < 0
        /\ result[t].value.reading.flesch_progress = 0

\* the alphabetic tokens of a sentence and those of them longer than 6
\* characters
C11_SentLen(sent) == Len(AlphaChunks(sent))
C11_ComplexCount(sent) ==
    Len(SelectSeq(sent, LAMBDA c : c \in {"economy.", "economy"}))

\* min(sent_len / 30, 0.6) + min(complex_count / 8, 0.4), in 120ths
C11_Total(sent) ==
    Min(4 * C11_SentLen(sent), 72) + Min(15 * C11_ComplexCount(sent), 48)

\* a sentence the highlighter leaves clear whatever its score
C11_Simple(sent) == C11_SentLen(sent) < 8 /\ C11_ComplexCount(sent) < 2

\* x, in units of 1/den, is within half a unit of num/den
WithinHalfUnit(x, num, den) ==
    /\ 2 * (x * den - num) <= den
    /\ 2 * (num - x * den) <= den

C12_Alpha(text) ==
    LET a == AlphaChunks(text) IN [i \in DOMAIN a |-> AlphaTokenOf(a[i])]

\* the places where the word sequence g occurs in a
C12_Places(a, g) ==
    {i \in 1..(Len(a) - Len(g) + 1) : SubSeq(a, i, i + Len(g) - 1) = g}

\* the sequences of n consecutive words of a that occur more than once
C12_Repeated(a, n) ==
    {g \in {SubSeq(a, i, i + n - 1) : i \in 1..(Len(a) - n + 1)} :
        Cardinality(C12_Places(a, g)) > 1}

\* list holds at most 5 distinct sequences of n consecutive words of a, each
\* with its number of occurrences, which is above 1, in descending order
C12_ListOk(list, a, n) ==
    /\ Len(list) <= 5
    /\ \A i \in DOMAIN list :
          /\ Len(list[i][1]) = n
          /\ list[i][2] = Cardinality(C12_Places(a, list[i][1]))
          /\ list[i][2] > 1
    /\ \A i, j \in DOMAIN list :
          i < j => list[i][2] >= list[j][2] /\ list[i][1] # list[j][1]
    /\ Len(a) < 3 => list = <<>>

\* C12: advanced.bigrams and advanced.trigrams hold no entry with count <= 1:
\* each holds at most 5 sequences of consecutive lowercase alphabetic tokens
\* that occur more than once, in descending order of frequency, and both are
\* empty for a text of fewer than 3 alphabetic tokens.
C12_NgramsRepeat ==
    \A t \in Threads :
        HasReport(t) =>
            /\ C12_ListOk(result[t].value.advanced.bigrams, C12_Alpha(arg[t]), 2)
            /\ C12_ListOk(result[t].value.advanced.trigrams, C12_Alpha(arg[t]), 3)

\* a text with more than 5 repeated bigrams and more than 5 repeated
\* trigrams is reported with 5 of each
C12_Witness ==
    \E t \in Threads :
        /\ HasReport(t)
        /\ Cardinality(C12_Repeated(C12_Alpha(arg[t]), 2)) > 5
        /\ Cardinality(C12_Repeated(C12_Alpha(arg[t]), 3)) > 5
        /\ Len(result[t].value.advanced.bigrams) = 5
        /\ Len(result[t].value.advanced.trigrams) = 5

\* the sum of the three percentages, in tenths of a percent
C13_Total(stats) ==
    stats["Common"] + stats["Intermediate"] + stats["Advanced/Rare"]

\* C13: for a text with at least one alphabetic token, the three rarity_stats
\* percentages are the shares, each rounded to 1 decimal, of three bucket
\* counts that add up to the number of alphabetic tokens, and their sum is
\* within 0.1 of 100.0.
C13_RarityStatsPartition ==
    \A t \in Threads :
        HasReport(t) /\ ~ZeroAlpha(arg[t]) =>
            LET stats == result[t].value.advanced.rarity_stats
                n == Len(AlphaChunks(arg[t]))
            IN  /\ DOMAIN stats = {"Common", "Intermediate", "Advanced/Rare"}
                /\ \A k \in DOMAIN stats : stats[k] \in 0..1000
                /\ C13_Total(stats) \in 999..1001
                /\ \E c \in [DOMAIN stats -> 0..n] :
                      /\ C13_Total(c) = n
                      /\ \A k \in DOMAIN stats :
                            WithinHalfUnit(stats[k], 1000 * c[k], n)

\* one word in each bucket: three times 33.3, which add up to 99.9
C13_Witness ==
    \E t \in Threads :
        /\ HasReport(t)
        /\ arg[t] = <<"the", "cat", "economy.">>
        /\ \A k \in Labels : result[t].value.advanced.rarity_stats[k] = 333

\* the text is one sentence of 25 words, 5 of them longer than 6 characters
C14_Scenario(text) ==
    /\ Len(sent_tokenize(text)) = 1
    /\ C11_SentLen(text) = 25
    /\ C11_ComplexCount(text) = 5

C15_LabelOk(rank, label) ==
    /\ rank <= 1000 => label = "Common"
    /\ 1000 < rank /\ rank <= 5000 => label = "Intermediate"
    /\ rank > 5000 => label = "Advanced/Rare"

\* the rank of a word: its place in the table, or the sentinel
C15_Rank(w) == IF w \in DOMAIN BrownRankings THEN BrownRankings[w] ELSE 999999

\* how many of the words a fall into the bucket label
C15_InBucket(a, label) ==
    Cardinality({i \in DOMAIN a : C15_LabelOk(C15_Rank(a[i]), label)})

\* C15: a rank up to 1000 is labelled "Common", a rank above 1000 and up to
\* 5000 "Intermediate" and any larger rank "Advanced/Rare"; every
\* alphabetic lowercase token of a text is counted in the bucket of its
\* rank in the table, and a word that is not in the table in
\* "Advanced/Rare".
C15_BucketedByRank ==
    \A t \in Threads :
        /\ pc[t] = "done" /\ result[t].kind = "label" =>
              C15_LabelOk(arg[t][1], result[t].value)
        /\ HasReport(t) /\ ~ZeroAlpha(arg[t]) =>
              LET stats == result[t].value.advanced.rarity_stats
                  a == C12_Alpha(arg[t])
              IN  /\ \A k \in DOMAIN stats :
                        WithinHalfUnit(stats[k], 1000 * C15_InBucket(a, k), Len(a))
                  /\ (\A i \in DOMAIN a : a[i] \notin DOMAIN BrownRankings) =>
                        stats["Advanced/Rare"] = 1000

\* the last rank of the middle bucket is labelled "Intermediate"
C15_Witness ==
    \E t \in Threads :
        /\ pc[t] = "done"
        /\ result[t].kind = "label"
        /\ arg[t] = <<5000>>
        /\ result[t].value = "Intermediate"

====
